---- MODULE Spec2Model ----
(***************************************************************************)
(* Question classification and clustering pipeline of the classroom        *)
(* feedback server: FreeAI (keywords, rule-based category, Jaccard         *)
(* similarity, topic summary), EnhancedAI (remote category and sentiment   *)
(* with kill switch and fallback) and the submit-question socket handler.  *)
(* Strings are JavaScript strings; TLC treats them as sequences of         *)
(* one-character strings (Len, SubSeq, \o).                                *)
(***************************************************************************)
EXTENDS Integers, Sequences, FiniteSets, TLC

VARIABLES
    aiEnabled,   \* process.env.AI_ENABLED !== 'false', as read at this moment
    hf,          \* TRUE iff the HfInference client exists (an API key was set at startup)
    db,          \* rows of the questions table, in rowid order
    sub,         \* sub[s]: the state of the s-th invocation of the submit-question handler
    emitted,     \* the 'new-question' messages handed to io.to(room).emit, in order
    fn           \* input, position and output of the function under test (function specifications)

vars == <<aiEnabled, hf, db, sub, emitted, fn>>

-----------------------------------------------------------------------------
(* Bounds of the model *)

MaxInitRows == 1     \* rows already in the questions table at startup

(* Constants of the program *)

MinWordLen == 2          \* word.length > 2
MaxKeywords == 5         \* .slice(0, 5)
ThresholdTenths == 3     \* similarity > 0.3
TopKeywords == 3         \* .slice(0, 3)
NegativeThreshold == 60  \* confidence > 0.6, in hundredths
PositiveThreshold == 70  \* confidence > 0.7, in hundredths

\* the submit-question events received, numbered in order of arrival
Subs == {1, 2}

Null == "null"

\* null where the other values are objects
NullObject == [null |-> TRUE]

-----------------------------------------------------------------------------
(* JavaScript values and string primitives *)

\* JavaScript evaluates an argument once and passes its value: F applied to the value of a
Call(F(_), a) == CHOOSE y \in {F(x) : x \in {a}} : TRUE

UpperChars == "ABCDEFGHIJKLMNOPQRSTUVWXYZ"
LowerChars == "abcdefghijklmnopqrstuvwxyz"
DigitChars == "0123456789"

Min(a, b) == IF a < b THEN a ELSE b

CharAt(s, i) == SubSeq(s, i, i)

\* String.prototype.toLowerCase on one character
LowerOf ==
    [c \in {CharAt(UpperChars, i) : i \in 1..Len(UpperChars)} |->
        CharAt(LowerChars, CHOOSE i \in 1..Len(UpperChars) : CharAt(UpperChars, i) = c)]

LowerChar(c) == IF c \in DOMAIN LowerOf THEN LowerOf[c] ELSE c

RECURSIVE LowerFrom(_, _)
LowerFrom(s, i) ==
    IF i > Len(s) THEN ""
    ELSE LowerChar(CharAt(s, i)) \o LowerFrom(s, i + 1)

\* String.prototype.toLowerCase
toLowerCase(s) == Call(LAMBDA v : LowerFrom(v, 1), s)

\* String.prototype.includes(p) for a non-empty p
includes(s, p) ==
    \E i \in 1..(Len(s) - Len(p) + 1) : SubSeq(s, i, i + Len(p) - 1) = p

\* the pieces of v between its spaces, empty pieces kept
Pieces(v) ==
    LET spaces == {i \in 1..Len(v) : CharAt(v, i) = " "}
        n == Cardinality(spaces)
        Space(k) == CHOOSE i \in spaces : Cardinality({j \in spaces : j < i}) = k - 1
        First(k) == IF k = 1 THEN 1 ELSE Space(k - 1) + 1
        Last(k) == IF k = n + 1 THEN Len(v) ELSE Space(k) - 1
    IN  [k \in 1..(n + 1) |-> SubSeq(v, First(k), Last(k))]

\* String.prototype.split(' ')
split(s) == Call(Pieces, s)

RECURSIVE JoinFrom(_, _, _)
JoinFrom(arr, sep, i) ==
    IF i > Len(arr) THEN ""
    ELSE IF i = Len(arr) THEN arr[i]
    ELSE arr[i] \o sep \o JoinFrom(arr, sep, i + 1)

\* Array.prototype.join(sep)
join(arr, sep) == Call(LAMBDA v : JoinFrom(v, sep, 1), arr)

Range(seq) == {seq[i] : i \in 1..Len(seq)}

\* Array.prototype.sort with a comparator that puts a before b when first(a, b); the
\* sort is stable: v[i] goes behind every element that the comparator puts first and
\* behind every earlier element the comparator ties with it
Sorted(v, first(_, _)) ==
    LET Before(j, i) == \/ first(v[j], v[i])
                        \/ (~first(v[i], v[j]) /\ j < i)
        Rank(i) == 1 + Cardinality({j \in 1..Len(v) : j # i /\ Before(j, i)})
    IN  [r \in 1..Len(v) |-> v[CHOOSE i \in 1..Len(v) : Rank(i) = r]]

StableSort(arr, first(_, _)) == Call(LAMBDA v : Sorted(v, first), arr)

-----------------------------------------------------------------------------
(* The part-of-speech tagger (the compromise library).  Its lexicon is not  *)
(* part of the program; the model tags the whitespace-separated words of a  *)
(* text by the lexicon below, compared in lower case, and returns each      *)
(* matched word as it is written in the text.                               *)

NounWords == {"roi", "irr", "bonds", "yield", "rate", "123", "42", "7", "ai"}
VerbWords == {"is", "does", "mean", "compute", "explain", "define"}
AdjectiveWords == {"net", "confused", "unclear", "big"}

Terms(text) == SelectSeq(split(text), LAMBDA w : Len(w) > 0)

nouns(text) == SelectSeq(Terms(text), LAMBDA w : toLowerCase(w) \in NounWords)
verbs(text) == SelectSeq(Terms(text), LAMBDA w : toLowerCase(w) \in VerbWords)
adjectives(text) == SelectSeq(Terms(text), LAMBDA w : toLowerCase(w) \in AdjectiveWords)

-----------------------------------------------------------------------------
(* class FreeAI *)

extractKeywords(text) ==
    Call(LAMBDA long : SubSeq(long, 1, Min(MaxKeywords, Len(long))),
         SelectSeq(nouns(text) \o verbs(text) \o adjectives(text),
                   LAMBDA word : Len(word) > MinWordLen))

\* the chain of tests on lowerText
CategoryOfLower(lowerText) ==
    IF \/ includes(lowerText, "what is") \/ includes(lowerText, "define")
       \/ includes(lowerText, "meaning") \/ includes(lowerText, "mean")
    THEN "definition"
    ELSE IF \/ includes(lowerText, "how to") \/ includes(lowerText, "steps")
            \/ includes(lowerText, "process") \/ includes(lowerText, "procedure")
    THEN "process"
    ELSE IF \/ includes(lowerText, "why") \/ includes(lowerText, "reason")
            \/ includes(lowerText, "because") \/ includes(lowerText, "purpose")
    THEN "reasoning"
    ELSE IF \/ includes(lowerText, "example") \/ includes(lowerText, "instance")
            \/ includes(lowerText, "case") \/ includes(lowerText, "sample")
    THEN "examples"
    ELSE IF \/ includes(lowerText, "confused") \/ includes(lowerText, "unclear")
            \/ includes(lowerText, "understand") \/ includes(lowerText, "explain")
    THEN "clarification"
    ELSE "general"

\* categorizeQuestion that matches the text as it is written
categorizeQuestionCaseSensitive(text) == Call(CategoryOfLower, text)

categorizeQuestion(text) == Call(CategoryOfLower, toLowerCase(text))

\* Jaccard that gives two empty keyword sets, which are equal, the similarity 1
JaccardOfEqualSetsIsOne(newKeywords, existingKeywords) ==
    IF newKeywords = existingKeywords THEN [num |-> 1, den |-> 1]
    ELSE [num |-> Cardinality(newKeywords \cap existingKeywords),
          den |-> Cardinality(newKeywords \cup existingKeywords)]

\* intersection.size / union.size: a JavaScript number, kept as the two sizes.
\* den = 0 is 0/0 = NaN, which compares false with everything.
Jaccard(newKeywords, existingKeywords) ==
    [num |-> Cardinality(newKeywords \cap existingKeywords),
     den |-> Cardinality(newKeywords \cup existingKeywords)]

\* AboveThreshold that accepts every pair with a common keyword
AnyCommonKeyword(similarity) == similarity.num > 0

\* similarity > 0.3
AboveThreshold(similarity) ==
    /\ similarity.den # 0
    /\ 10 * similarity.num > ThresholdTenths * similarity.den

\* SimilarityFirst of the comparator (a, b) => a.similarity - b.similarity
LowerSimilarityFirst(a, b) ==
    a.similarity.num * b.similarity.den < b.similarity.num * a.similarity.den

\* the comparator (a, b) => b.similarity - a.similarity is negative: a goes first
SimilarityFirst(a, b) ==
    a.similarity.num * b.similarity.den > b.similarity.num * a.similarity.den

\* the body of the forEach: the entry of one existing question
SimilarityEntry(newKeywords, existing) ==
    [questionId |-> existing.id,
     similarity |-> Jaccard(newKeywords,
                            Range(extractKeywords(toLowerCase(existing.question_text)))),
     text |-> existing.question_text]

\* the entries pushed to similarities, in the order of existingQuestions
Similarities(newKeywords, existingQuestions) ==
    SelectSeq([i \in 1..Len(existingQuestions) |->
                  SimilarityEntry(newKeywords, existingQuestions[i])],
              LAMBDA e : AboveThreshold(e.similarity))

findSimilarQuestions(newQuestion, existingQuestions) ==
    Call(LAMBDA newKeywords :
             StableSort(Similarities(newKeywords, existingQuestions), SimilarityFirst),
         Range(extractKeywords(toLowerCase(newQuestion))))

\* allKeywords.push(...) for the questions from the i-th on
RECURSIVE KeywordsFrom(_, _)
KeywordsFrom(questions, i) ==
    IF i > Len(questions) THEN <<>>
    ELSE extractKeywords(questions[i].question_text) \o KeywordsFrom(questions, i + 1)

\* a canonical array index: Object.entries lists such keys first, ascending
IsDigits(k) == \A i \in 1..Len(k) : \E d \in 1..Len(DigitChars) : CharAt(DigitChars, d) = CharAt(k, i)
IsIndexKey(k) == /\ Len(k) > 0
                 /\ IsDigits(k)
                 /\ (Len(k) > 1 => CharAt(k, 1) # "0")

DigitValue(c) == (CHOOSE d \in 1..Len(DigitChars) : CharAt(DigitChars, d) = c) - 1

\* the number that the first n digits of k write
RECURSIVE DigitsValue(_, _)
DigitsValue(k, n) ==
    IF n = 0 THEN 0
    ELSE 10 * DigitsValue(k, n - 1) + DigitValue(CharAt(k, n))

IndexValue(k) == DigitsValue(k, Len(k))

IndexFirst(a, b) == IndexValue(a) < IndexValue(b)

\* the keys of keywordFreq in first-insertion order
FirstSeen(keywords) ==
    LET firsts == {i \in 1..Len(keywords) : \A j \in 1..(i - 1) : keywords[j] # keywords[i]}
        Nth(k) == CHOOSE i \in firsts : Cardinality({j \in firsts : j < i}) = k - 1
    IN  [k \in 1..Cardinality(firsts) |-> keywords[Nth(k)]]

\* the order in which an object lists its keys: index keys ascending, then the others
OwnKeys(keys) ==
    StableSort(SelectSeq(keys, IsIndexKey), IndexFirst)
    \o SelectSeq(keys, LAMBDA k : ~IsIndexKey(k))

\* Object.entries(keywordFreq): the [keyword, count] pairs
ObjectEntries(keywords) ==
    Call(LAMBDA ordered :
             [i \in 1..Len(ordered) |->
                 <<ordered[i],
                   Cardinality({j \in 1..Len(keywords) : keywords[j] = ordered[i]})>>],
         Call(OwnKeys, Call(FirstSeen, keywords)))

\* the comparator ([,a], [,b]) => b - a is negative
CountFirst(x, y) == x[2] > y[2]

\* .sort(...).slice(0, 3).map(([keyword]) => keyword)
TopKeywordsOf(allKeywords) ==
    Call(LAMBDA sorted : [i \in 1..Min(TopKeywords, Len(sorted)) |-> sorted[i][1]],
         StableSort(ObjectEntries(allKeywords), CountFirst))

\* generateTopicSummary whose urgency is high from two questions on
generateTopicSummaryHighFromTwo(questions) ==
    IF Len(questions) = 0 THEN NullObject
    ELSE Call(LAMBDA topKeywords :
                  [title |-> join(topKeywords, " & "),
                   keywords |-> topKeywords,
                   questionCount |-> Len(questions),
                   urgency |-> IF Len(questions) > 1 THEN "high" ELSE "low"],
              Call(TopKeywordsOf, KeywordsFrom(questions, 1)))

generateTopicSummary(questions) ==
    IF Len(questions) = 0 THEN NullObject
    ELSE Call(LAMBDA topKeywords :
                  [title |-> join(topKeywords, " & "),
                   keywords |-> topKeywords,
                   questionCount |-> Len(questions),
                   urgency |-> IF Len(questions) > 2 THEN "high"
                               ELSE IF Len(questions) > 1 THEN "medium" ELSE "low"],
              Call(TopKeywordsOf, KeywordsFrom(questions, 1)))

-----------------------------------------------------------------------------
(* class EnhancedAI: what it does with the answers of the remote service *)

CandidateLabels ==
    {"definition and explanation", "process and procedures", "examples and cases",
     "reasoning and why", "clarification and confusion", "general question"}

\* the answers of hf.zeroShotClassification: a top label, or a rejection
CategoryResults ==
    {[ok |-> TRUE, label |-> l] : l \in CandidateLabels} \cup {[ok |-> FALSE, label |-> ""]}

\* the answers of hf.textClassification: a top label with its score in hundredths, or a rejection
SentimentResults ==
    {[ok |-> TRUE, label |-> l, score |-> c] :
        l \in {"negative", "neutral", "positive", "POSITIVE"}, c \in {60, 61, 70, 71}}
    \cup {[ok |-> FALSE, label |-> "", score |-> 0]}

\* CategoryFromRemote with a catch block that answers 'general'
CategoryFromRemoteNoFallback(result, text) ==
    IF result.ok THEN split(toLowerCase(result.label))[1]
    ELSE "general"

\* CategoryFromRemote that keeps the whole label, lower-cased
CategoryFromRemoteWholeLabel(result, text) ==
    IF result.ok THEN toLowerCase(result.label)
    ELSE categorizeQuestion(text)

\* result.labels[0].toLowerCase().split(' ')[0], the catch block on a rejection
CategoryFromRemote(result, text) ==
    IF result.ok THEN split(toLowerCase(result.label))[1]
    ELSE categorizeQuestion(text)

SentimentFromRemote(result) ==
    IF result.ok
    THEN LET sentiment == toLowerCase(result.label)
             confidence == result.score
         IN  IF sentiment = "negative" /\ confidence > NegativeThreshold THEN "confused"
             ELSE IF sentiment = "positive" /\ confidence > PositiveThreshold THEN "excited"
             ELSE "neutral"
    ELSE "neutral"

-----------------------------------------------------------------------------
(* The submit-question handler.  The events, and the answers of the remote  *)
(* service while a submission is in flight, are drawn from the sets below.  *)

Rooms == {"R1"}
QuestionTexts == {"What is ROI", "what does roi mean", ""}
ClientSentiments == {"neutral"}
RemoteCategoryAnswers ==
    {r \in CategoryResults : ~r.ok \/ r.label = "examples and cases"}
RemoteSentimentAnswers ==
    {r \in SentimentResults : ~r.ok \/ (r.label = "negative" /\ r.score = 61)}

InitRow(i) == [id |-> 100 + i, session_id |-> "R1", question_text |-> "What is ROI",
               sentiment |-> "neutral", topic_cluster |-> "ROI"]

IdleSub ==
    [pc |-> "idle", sessionCode |-> Null, questionText |-> "", sentiment |-> Null,
     catCall |-> "none", catLabel |-> "", sentCall |-> "none", sentLabel |-> "", sentScore |-> 0,
     category |-> Null, analyzedSentiment |-> Null,
     readErr |-> FALSE, similarQuestions |-> <<>>,
     topicSummary |-> NullObject, topicCluster |-> Null, insertErr |-> FALSE]

NoCall == [name |-> Null]

Init ==
    /\ aiEnabled \in BOOLEAN
    /\ hf \in BOOLEAN
    /\ \E n \in 0..MaxInitRows : db = [i \in 1..n |-> InitRow(i)]
    /\ sub = [s \in Subs |-> IdleSub]
    /\ emitted = <<>>
    /\ fn = NoCall

\* StartSentiment without the test of AI_ENABLED
StartSentimentNoSwitch(r) ==
    IF hf
    THEN [r EXCEPT !.sentCall = "pending", !.pc = "awaitSentiment"]
    ELSE [r EXCEPT !.analyzedSentiment = "neutral", !.pc = "dbAll"]

\* EnhancedAI.analyzeSentiment up to its first suspension, called with the category known
StartSentiment(r) ==
    IF aiEnabled /\ hf
    THEN [r EXCEPT !.sentCall = "pending", !.pc = "awaitSentiment"]
    ELSE [r EXCEPT !.analyzedSentiment = "neutral", !.pc = "dbAll"]

\* StartCategory with AI_ENABLED read once, at startup, when it was not 'false'
StartCategoryCached(r) ==
    IF hf
    THEN [r EXCEPT !.catCall = "pending", !.pc = "awaitCategory"]
    ELSE StartSentiment([r EXCEPT !.category = categorizeQuestion(r.questionText)])

\* EnhancedAI.categorizeQuestion up to its first suspension; without one it returns
\* and analyzeSentiment starts in the same turn of the event loop
StartCategory(r) ==
    IF aiEnabled /\ hf
    THEN [r EXCEPT !.catCall = "pending", !.pc = "awaitCategory"]
    ELSE StartSentiment([r EXCEPT !.category = categorizeQuestion(r.questionText)])

\* socket.on('submit-question'): the handler up to its first suspension
SubmitQuestion(s, data) ==
    /\ sub[s].pc = "idle"
    /\ \A t \in Subs : t < s => sub[t].pc # "idle"
    /\ sub' = [sub EXCEPT ![s] =
            StartCategory([sub[s] EXCEPT !.sessionCode = data.sessionCode,
                                         !.questionText = data.questionText,
                                         !.sentiment = data.sentiment])]
    /\ UNCHANGED <<aiEnabled, hf, db, emitted, fn>>

\* hf.zeroShotClassification settles; categorizeQuestion returns and analyzeSentiment starts
CategoryReturns(s, result) ==
    /\ sub[s].pc = "awaitCategory"
    /\ sub' = [sub EXCEPT ![s] =
            StartSentiment([sub[s] EXCEPT
                !.catCall = IF result.ok THEN "resolved" ELSE "rejected",
                !.catLabel = result.label,
                !.category = CategoryFromRemote(result, sub[s].questionText)])]
    /\ UNCHANGED <<aiEnabled, hf, db, emitted, fn>>

\* hf.zeroShotClassification never settles: the call is made without a timeout
CategoryNeverReturns(s) ==
    /\ sub[s].pc = "awaitCategory"
    /\ sub' = [sub EXCEPT ![s].pc = "hungCategory"]
    /\ UNCHANGED <<aiEnabled, hf, db, emitted, fn>>

\* hf.textClassification settles; analyzeSentiment returns and db.all is issued
SentimentReturns(s, result) ==
    /\ sub[s].pc = "awaitSentiment"
    /\ sub' = [sub EXCEPT ![s].sentCall = IF result.ok THEN "resolved" ELSE "rejected",
                          ![s].sentLabel = result.label,
                          ![s].sentScore = result.score,
                          ![s].analyzedSentiment = SentimentFromRemote(result),
                          ![s].pc = "dbAll"]
    /\ UNCHANGED <<aiEnabled, hf, db, emitted, fn>>

\* hf.textClassification never settles: the call is made without a timeout
SentimentNeverReturns(s) ==
    /\ sub[s].pc = "awaitSentiment"
    /\ sub' = [sub EXCEPT ![s].pc = "hungSentiment"]
    /\ UNCHANGED <<aiEnabled, hf, db, emitted, fn>>

\* SelectQuestions that also sees the questions whose INSERT is still to run
SelectQuestionsWithPending(sessionCode) ==
    SelectSeq(db, LAMBDA q : q.session_id = sessionCode)
    \o [i \in 1..Cardinality({t \in Subs : sub[t].pc = "dbRun"}) |->
           LET t == CHOOSE u \in Subs :
                        /\ sub[u].pc = "dbRun"
                        /\ Cardinality({v \in Subs : sub[v].pc = "dbRun" /\ v < u}) = i - 1
           IN  [id |-> t, session_id |-> sub[t].sessionCode,
                question_text |-> sub[t].questionText,
                sentiment |-> sub[t].analyzedSentiment,
                topic_cluster |-> sub[t].topicCluster]]

\* SELECT * FROM questions WHERE session_id = ?
SelectQuestions(sessionCode) == SelectSeq(db, LAMBDA q : q.session_id = sessionCode)

\* ExistingOrEmpty that keeps what the failed SELECT left behind
ExistingIgnoringErr(err, rows) == rows

\* if (err) existingQuestions = []
ExistingOrEmpty(err, rows) == IF err THEN <<>> ELSE rows

\* relatedQuestionsOf that keeps every existing question
relatedQuestionsUnfiltered(existingQuestions, similarQuestions, questionText) ==
    existingQuestions \o <<[question_text |-> questionText]>>

\* relatedQuestionsOf without the push of the new question
relatedQuestionsWithoutNew(existingQuestions, similarQuestions, questionText) ==
    Call(LAMBDA similar :
             SelectSeq(existingQuestions,
                       LAMBDA q : \E i \in 1..Len(similar) : similar[i].questionId = q.id),
         similarQuestions)

\* existingQuestions.filter(...) and the push of the new question
relatedQuestionsOf(existingQuestions, similarQuestions, questionText) ==
    Call(LAMBDA similar :
             SelectSeq(existingQuestions,
                       LAMBDA q : \E i \in 1..Len(similar) : similar[i].questionId = q.id),
         similarQuestions)
    \o <<[question_text |-> questionText]>>

\* AfterRead that labels the topic cluster with the category
AfterReadLabelIsCategory(r, err, rows) ==
    LET existingQuestions == ExistingOrEmpty(err, rows)
        similarQuestions == findSimilarQuestions(r.questionText, existingQuestions)
        relatedQuestions ==
            relatedQuestionsOf(existingQuestions, similarQuestions, r.questionText)
        topicSummary == generateTopicSummary(relatedQuestions)
    IN  [r EXCEPT !.readErr = err,
                  !.similarQuestions = similarQuestions,
                  !.topicSummary = topicSummary,
                  !.topicCluster = r.category,
                  !.pc = "dbRun"]

\* the callback of db.all with the rows read (none when the SELECT failed), up to
\* issuing the INSERT
AfterRead(r, err, rows) ==
    LET existingQuestions == ExistingOrEmpty(err, rows)
        similarQuestions == findSimilarQuestions(r.questionText, existingQuestions)
        relatedQuestions ==
            relatedQuestionsOf(existingQuestions, similarQuestions, r.questionText)
        topicSummary == generateTopicSummary(relatedQuestions)
        topicCluster == IF topicSummary # NullObject THEN topicSummary.title ELSE r.category
    IN  [r EXCEPT !.readErr = err,
                  !.similarQuestions = similarQuestions,
                  !.topicSummary = topicSummary,
                  !.topicCluster = topicCluster,
                  !.pc = "dbRun"]

\* db.all answers and its callback runs
DbAllCallback(s, err) ==
    /\ sub[s].pc = "dbAll"
    /\ sub' = [sub EXCEPT ![s] = AfterRead(sub[s], err, SelectQuestions(sub[s].sessionCode))]
    /\ UNCHANGED <<aiEnabled, hf, db, emitted, fn>>

\* the row of the INSERT statement
InsertedRow(s, r) ==
    [id |-> s, session_id |-> r.sessionCode, question_text |-> r.questionText,
     sentiment |-> r.analyzedSentiment, topic_cluster |-> r.topicCluster]

\* the object broadcast as 'new-question'
questionData(s, r) ==
    [id |-> s, sessionId |-> r.sessionCode, questionText |-> r.questionText,
     sentiment |-> r.sentiment, category |-> r.category,
     topicCluster |-> r.topicCluster, similarQuestions |-> r.similarQuestions,
     topicSummary |-> r.topicSummary, upvotes |-> 0]

\* the messages broadcast by the callback of db.run
Broadcast(s, r, err) ==
    IF err THEN <<>>
    ELSE <<[room |-> r.sessionCode, event |-> "new-question", data |-> questionData(s, r)]>>

\* db.run answers and its callback runs
DbRunCallback(s, err) ==
    /\ sub[s].pc = "dbRun"
    /\ db' = IF err THEN db ELSE Append(db, InsertedRow(s, sub[s]))
    /\ emitted' = emitted \o Broadcast(s, sub[s], err)
    /\ sub' = [sub EXCEPT ![s].insertErr = err, ![s].pc = "done"]
    /\ UNCHANGED <<aiEnabled, hf, fn>>

\* AI_ENABLED is changed in the environment of the process
ToggleKillSwitch ==
    /\ aiEnabled' = ~aiEnabled
    /\ UNCHANGED <<hf, db, sub, emitted, fn>>

SubmissionData ==
    [sessionCode : Rooms, questionText : QuestionTexts, sentiment : ClientSentiments]

\* the steps of the submission s after the event was received
Proceed(s) ==
    \/ \E result \in RemoteCategoryAnswers : CategoryReturns(s, result)
    \/ CategoryNeverReturns(s)
    \/ \E result \in RemoteSentimentAnswers : SentimentReturns(s, result)
    \/ SentimentNeverReturns(s)
    \/ \E err \in BOOLEAN : DbAllCallback(s, err)
    \/ \E err \in BOOLEAN : DbRunCallback(s, err)

Next ==
    \/ \E s \in Subs, data \in SubmissionData : SubmitQuestion(s, data)
    \/ \E s \in Subs : Proceed(s)
    \/ ToggleKillSwitch

Spec == Init /\ [][Next]_vars

\* the first submission alone, every call-back that is due being eventually run;
\* each of its behaviours is one of Spec in which no second question is received
NextSingle ==
    \/ \E data \in SubmissionData : SubmitQuestion(1, data)
    \/ Proceed(1)
    \/ ToggleKillSwitch

FairSpec == Init /\ [][NextSingle]_vars /\ WF_vars(Proceed(1))

-----------------------------------------------------------------------------
(* Properties of the handler *)

Classified(s) == sub[s].pc \in {"dbAll", "dbRun", "done"}
EmittedFor(s) == \E i \in 1..Len(emitted) : emitted[i].data.id = s
PersistedFor(s) == \E i \in 1..Len(db) : db[i].id = s
RowOf(s) == db[CHOOSE i \in 1..Len(db) : db[i].id = s]
ReferencedBy(s) == {sub[s].similarQuestions[i].questionId : i \in 1..Len(sub[s].similarQuestions)}
Received(s) == sub[s].pc = "idle" /\ sub'[s].pc # "idle"

\* the category a candidate label stands for
LabelCategory(label) ==
    CASE label = "definition and explanation" -> "definition"
      [] label = "process and procedures" -> "process"
      [] label = "examples and cases" -> "examples"
      [] label = "reasoning and why" -> "reasoning"
      [] label = "clarification and confusion" -> "clarification"
      [] label = "general question" -> "general"

\* the sentiment a remote answer stands for
LabelSentiment(label, score) ==
    CASE label \in {"negative", "NEGATIVE"} /\ score > 60 -> "confused"
      [] label \in {"positive", "POSITIVE"} /\ score > 70 -> "excited"
      [] OTHER -> "neutral"

\* C1: a question received while the kill switch is off, or without a credential,
\* is classified in that very step as (rule-based category of its text, neutral)
\* with neither remote classifier invoked, and none is invoked for it afterwards.
C1_NoRemoteCallWhenDisabled ==
    [][\A s \in Subs :
          /\ (Received(s) /\ ~(aiEnabled /\ hf)) =>
                /\ sub'[s].catCall = "none"
                /\ sub'[s].sentCall = "none"
                /\ sub'[s].pc = "dbAll"
                /\ sub'[s].category = categorizeQuestion(sub'[s].questionText)
                /\ sub'[s].analyzedSentiment = "neutral"
          /\ Classified(s) =>
                /\ sub'[s].catCall = sub[s].catCall
                /\ sub'[s].sentCall = sub[s].sentCall
                /\ sub'[s].category = sub[s].category
                /\ sub'[s].analyzedSentiment = sub[s].analyzedSentiment]_vars

\* a question classified with the switch off although a credential is configured
C1_Witness ==
    \E s \in Subs :
        /\ hf /\ ~aiEnabled
        /\ sub[s].pc = "dbAll"
        /\ sub[s].catCall = "none" /\ sub[s].sentCall = "none"
        /\ sub[s].category = "definition" /\ sub[s].analyzedSentiment = "neutral"

\* C2: a rejected category call leaves the rule-based category of the text, a
\* rejected sentiment call leaves neutral, a resolved call leaves what the answer
\* stands for, each whatever the other call did, and the handler goes on after both.
C2_RemoteFailureFallsBack ==
    \A s \in Subs :
        /\ sub[s].catCall = "rejected" =>
              sub[s].category = categorizeQuestion(sub[s].questionText)
        /\ sub[s].catCall = "resolved" =>
              sub[s].category = LabelCategory(sub[s].catLabel)
        /\ sub[s].sentCall = "rejected" => sub[s].analyzedSentiment = "neutral"
        /\ sub[s].sentCall = "resolved" =>
              sub[s].analyzedSentiment = LabelSentiment(sub[s].sentLabel, sub[s].sentScore)
        /\ sub[s].catCall \in {"resolved", "rejected"} =>
              sub[s].pc \in {"awaitSentiment", "hungSentiment", "dbAll", "dbRun", "done"}
        /\ sub[s].sentCall \in {"resolved", "rejected"} => Classified(s)

\* one question with the category call rejected and the sentiment call resolved,
\* another with the category call resolved and the sentiment call rejected
C2_Witness ==
    /\ sub[1].catCall = "rejected" /\ sub[1].sentCall = "resolved"
    /\ sub[1].category = "definition" /\ sub[1].analyzedSentiment = "confused"
    /\ sub[2].catCall = "resolved" /\ sub[2].sentCall = "rejected"
    /\ sub[2].category = "examples" /\ sub[2].analyzedSentiment = "neutral"
    /\ Classified(1) /\ Classified(2)

\* C3: a submission whose handler has run to its end has had its record emitted.
C3_EverySubmissionEmitted ==
    \A s \in Subs : sub[s].pc = "done" => EmittedFor(s)

\* C4: a remote call that never settles is given up, and the submission goes on
\* to the corpus read.
C4_HungRemoteCallIsAbandoned ==
    \A s \in Subs :
        (sub[s].pc \in {"hungCategory", "hungSentiment"}) ~> (sub[s].pc \in {"dbRun", "done"})

\* C5: an emitted record carries the category and the sentiment computed for its
\* question, the sentiment being the one persisted.
C5_EmittedCarriesClassification ==
    \A i \in 1..Len(emitted) :
        LET d == emitted[i].data IN
        /\ d.category = sub[d.id].category
        /\ d.sentiment = sub[d.id].analyzedSentiment
        /\ d.sentiment = RowOf(d.id).sentiment

C7_SimilarityFromPersistedOnly ==
    /\ \A s \in Subs : ReferencedBy(s) \subseteq {db[i].id : i \in 1..Len(db)}
    /\ \A s, t \in Subs :
          (s # t /\ sub[s].pc = "dbRun" /\ sub[t].pc = "dbRun") => t \notin ReferencedBy(s)

KeywordSetOf(text) == Range(extractKeywords(toLowerCase(text)))

\* two similar questions, both read and persisted without a failure, neither of
\* which references the other
C7_Witness ==
    /\ sub[1].pc = "done" /\ sub[2].pc = "done"
    /\ ~sub[1].readErr /\ ~sub[2].readErr
    /\ PersistedFor(1) /\ PersistedFor(2)
    /\ sub[1].sessionCode = sub[2].sessionCode
    /\ LET a == KeywordSetOf(sub[1].questionText)
           b == KeywordSetOf(sub[2].questionText)
       IN  10 * Cardinality(a \cap b) > 3 * Cardinality(a \cup b)
    /\ 2 \notin ReferencedBy(1) /\ 1 \notin ReferencedBy(2)

\* C8: each classification call reads the kill switch as it is at that moment: the
\* category classifier is invoked for a question iff the switch is on (and a
\* credential exists) when the question is received, the sentiment classifier iff
\* it is on when the category call returns, and neither when the question is
\* received with the switch off.
C8_KillSwitchReadPerCall ==
    [][\A s \in Subs :
          /\ Received(s) =>
                /\ sub'[s].catCall = "pending" <=> (aiEnabled /\ hf)
                /\ ~aiEnabled => (sub'[s].sentCall = "none" /\ sub'[s].pc = "dbAll")
          /\ (sub[s].pc = "awaitCategory" /\ sub'[s].pc \notin {"awaitCategory", "hungCategory"}) =>
                (sub'[s].sentCall = "pending" <=> (aiEnabled /\ hf))
          /\ (sub[s].pc # "idle" /\ sub[s].pc # "awaitCategory") =>
                (sub'[s].sentCall = "none" <=> sub[s].sentCall = "none")]_vars

\* the first question was received with the switch off and invoked nothing, the
\* second was received after the switch was turned on and invoked both classifiers
C8_Witness ==
    /\ hf
    /\ sub[1].pc # "idle" /\ sub[1].catCall = "none" /\ sub[1].sentCall = "none"
    /\ sub[2].catCall # "none" /\ sub[2].sentCall # "none"

-----------------------------------------------------------------------------
(* FreeAI.categorizeQuestion on its own: one call on a text put together from *)
(* at most MaxCatFragments of the fragments below                             *)

MaxCatFragments == 2

CatFragments ==
    {"What is", "what", " is", "define", "Meaning", "mean", "HOW TO", "steps", "process",
     "procedure", "why", "reason", "Because", "purpose", "example", "instance", "case",
     "Sample", "confused", "unclear", "understand", "EXPLAIN", " ", "bonds", "s"}

RECURSIVE ConcatFrom(_, _)
ConcatFrom(parts, i) ==
    IF i > Len(parts) THEN "" ELSE parts[i] \o ConcatFrom(parts, i + 1)

CatTexts ==
    {ConcatFrom(parts, 1) : parts \in UNION {[1..n -> CatFragments] : n \in 0..MaxCatFragments}}

PipelineIdle ==
    /\ aiEnabled = TRUE
    /\ hf = FALSE
    /\ db = <<>>
    /\ sub = [s \in Subs |-> IdleSub]
    /\ emitted = <<>>

CatInit ==
    /\ PipelineIdle
    /\ fn \in {[name |-> "categorizeQuestion", text |-> t, done |-> FALSE, out |-> Null] :
                  t \in CatTexts}

CallCategorize ==
    /\ fn.name = "categorizeQuestion"
    /\ ~fn.done
    /\ fn' = [fn EXCEPT !.done = TRUE, !.out = categorizeQuestion(fn.text)]
    /\ UNCHANGED <<aiEnabled, hf, db, sub, emitted>>

CatSpec == CatInit /\ [][CallCategorize]_vars

\* the rules in their order of precedence
CategoryRules ==
    <<[category |-> "definition", phrases |-> {"what is", "define", "meaning", "mean"}],
      [category |-> "process", phrases |-> {"how to", "steps", "process", "procedure"}],
      [category |-> "reasoning", phrases |-> {"why", "reason", "because", "purpose"}],
      [category |-> "examples", phrases |-> {"example", "instance", "case", "sample"}],
      [category |-> "clarification",
       phrases |-> {"confused", "unclear", "understand", "explain"}]>>

\* p is a substring of text when case is ignored
ContainsIgnoringCase(text, p) ==
    \E i \in 1..(Len(text) - Len(p) + 1) : toLowerCase(SubSeq(text, i, i + Len(p) - 1)) = p

MatchingRules(text) ==
    {k \in 1..Len(CategoryRules) :
        \E p \in CategoryRules[k].phrases : ContainsIgnoringCase(text, p)}

FirstMatchingCategory(text) ==
    IF MatchingRules(text) = {} THEN "general"
    ELSE CategoryRules[CHOOSE k \in MatchingRules(text) :
                           \A j \in MatchingRules(text) : k <= j].category

\* C9: the rule-based categorizer returns the category of the first rule, in the
\* order definition, process, reasoning, examples, clarification, one of whose
\* phrases is a substring of the text when case is ignored, and general when no
\* rule has one.
C9_FirstMatchingRuleWins ==
    fn.name = "categorizeQuestion" /\ fn.done => fn.out = FirstMatchingCategory(fn.text)

\* a text written partly in upper case that matches the third and the fifth rule
C9_Witness ==
    /\ fn.name = "categorizeQuestion" /\ fn.done
    /\ fn.text = "EXPLAINwhy"
    /\ MatchingRules(fn.text) = {3, 5}
    /\ fn.out = "reasoning"

-----------------------------------------------------------------------------
(* FreeAI.findSimilarQuestions on its own: one call with a new question and a *)
(* corpus of at most MaxCorpus questions                                      *)

MaxCorpus == 3

SimTexts ==
    {"", "is ai", "What is ROI", "what does roi mean", "roi ROI yield",
     "roi yield rate bonds", "Bonds", "roi irr bonds yield rate mean"}

\* the corpora: the i-th question has the id i
Corpora ==
    {[i \in 1..Len(texts) |-> [id |-> i, question_text |-> texts[i]]] :
        texts \in UNION {[1..m -> SimTexts] : m \in 0..MaxCorpus}}

SimInit ==
    /\ PipelineIdle
    /\ fn \in {[name |-> "findSimilarQuestions", newQuestion |-> t, existingQuestions |-> c,
                done |-> FALSE, out |-> <<>>] :
                  t \in SimTexts, c \in Corpora}

CallFindSimilar ==
    /\ fn.name = "findSimilarQuestions"
    /\ ~fn.done
    /\ fn' = [fn EXCEPT !.done = TRUE,
                        !.out = findSimilarQuestions(fn.newQuestion, fn.existingQuestions)]
    /\ UNCHANGED <<aiEnabled, hf, db, sub, emitted>>

SimSpec == SimInit /\ [][CallFindSimilar]_vars

CommonKeywords(a, b) == Cardinality(KeywordSetOf(a) \cap KeywordSetOf(b))
AllKeywords(a, b) == Cardinality(KeywordSetOf(a) \cup KeywordSetOf(b))

\* C10: findSimilarQuestions reports a corpus member, once, iff the keyword sets
\* of the new question and the member have |intersection| / |union| > 0.30; the
\* score it reports is that ratio and lies in [0,1]; a ratio of 0.30 is not above
\* the threshold.
C10_ReportedIffAboveThreshold ==
    fn.name = "findSimilarQuestions" /\ fn.done =>
        /\ \A i \in 1..Len(fn.existingQuestions) :
              LET member == fn.existingQuestions[i]
                  common == CommonKeywords(fn.newQuestion, member.question_text)
                  all == AllKeywords(fn.newQuestion, member.question_text)
                  reports == {j \in 1..Len(fn.out) : fn.out[j].questionId = member.id}
              IN  /\ (reports # {}) <=> (all > 0 /\ 10 * common > 3 * all)
                  /\ Cardinality(reports) <= 1
                  /\ \A j \in reports :
                        /\ fn.out[j].similarity = [num |-> common, den |-> all]
                        /\ fn.out[j].text = member.question_text
        /\ \A j \in 1..Len(fn.out) :
              /\ fn.out[j].similarity.den > 0
              /\ 0 <= fn.out[j].similarity.num
              /\ fn.out[j].similarity.num <= fn.out[j].similarity.den
              /\ \E i \in 1..Len(fn.existingQuestions) :
                    fn.existingQuestions[i].id = fn.out[j].questionId
        /\ ~AboveThreshold([num |-> 3, den |-> 10])

\* a member with a third of the keywords in common is reported, a member with a
\* quarter of them in common is not
C10_Witness ==
    /\ fn.name = "findSimilarQuestions" /\ fn.done
    /\ fn.newQuestion = "What is ROI"
    /\ Len(fn.existingQuestions) = 2
    /\ fn.existingQuestions[1].question_text = "roi yield rate bonds"
    /\ fn.existingQuestions[2].question_text = "what does roi mean"
    /\ CommonKeywords(fn.newQuestion, "roi yield rate bonds") = 1
    /\ AllKeywords(fn.newQuestion, "roi yield rate bonds") = 4
    /\ Len(fn.out) = 1
    /\ fn.out[1].questionId = 2
    /\ fn.out[1].similarity = [num |-> 1, den |-> 3]

\* the place of the question with this id in the corpus of the call
PlaceInCorpus(questionId) ==
    CHOOSE i \in 1..Len(fn.existingQuestions) : fn.existingQuestions[i].id = questionId

\* C11: the results of findSimilarQuestions are in order of non-increasing
\* similarity, and results of equal similarity are in the order their questions
\* have in the corpus.
C11_SortedDescendingStable ==
    fn.name = "findSimilarQuestions" /\ fn.done =>
        \A j, k \in 1..Len(fn.out) :
            j < k =>
                LET a == fn.out[j].similarity
                    b == fn.out[k].similarity
                IN  /\ a.num * b.den >= b.num * a.den
                    /\ a.num * b.den = b.num * a.den =>
                          PlaceInCorpus(fn.out[j].questionId) < PlaceInCorpus(fn.out[k].questionId)

\* a corpus whose first member scores a third and whose second and third both
\* score one: the result lists the second, the third, then the first
C11_Witness ==
    /\ fn.name = "findSimilarQuestions" /\ fn.done
    /\ fn.newQuestion = "What is ROI"
    /\ Len(fn.existingQuestions) = 3
    /\ fn.existingQuestions[1].question_text = "what does roi mean"
    /\ fn.existingQuestions[2].question_text = "What is ROI"
    /\ fn.existingQuestions[3].question_text = "What is ROI"
    /\ Len(fn.out) = 3
    /\ fn.out[1].questionId = 2 /\ fn.out[1].similarity = [num |-> 1, den |-> 1]
    /\ fn.out[2].questionId = 3 /\ fn.out[2].similarity = [num |-> 1, den |-> 1]
    /\ fn.out[3].questionId = 1 /\ fn.out[3].similarity = [num |-> 1, den |-> 3]

\* C12: a corpus member whose keyword set is empty like that of the new question
\* is left out of the result, no reported similarity is the outcome of a division
\* by zero, and an empty corpus gives an empty result.
C12_EmptyKeywordSetsExcluded ==
    fn.name = "findSimilarQuestions" /\ fn.done =>
        /\ \A i \in 1..Len(fn.existingQuestions) :
              (/\ KeywordSetOf(fn.newQuestion) = {}
               /\ KeywordSetOf(fn.existingQuestions[i].question_text) = {}) =>
                  \A j \in 1..Len(fn.out) :
                      fn.out[j].questionId # fn.existingQuestions[i].id
        /\ \A j \in 1..Len(fn.out) : fn.out[j].similarity.den # 0
        /\ fn.existingQuestions = <<>> => fn.out = <<>>

\* an empty new question against a corpus with an empty text, a text whose words
\* are all too short to be keywords, and a text with a keyword: nothing is reported
C12_Witness ==
    /\ fn.name = "findSimilarQuestions" /\ fn.done
    /\ fn.newQuestion = ""
    /\ Len(fn.existingQuestions) = 3
    /\ fn.existingQuestions[1].question_text = ""
    /\ fn.existingQuestions[2].question_text = "is ai"
    /\ fn.existingQuestions[3].question_text = "What is ROI"
    /\ KeywordSetOf("is ai") = {}
    /\ Jaccard(KeywordSetOf(""), KeywordSetOf("")).den = 0
    /\ fn.out = <<>>

-----------------------------------------------------------------------------
(* FreeAI.generateTopicSummary on its own: one call with a cluster of at most *)
(* MaxCluster questions                                                       *)

MaxCluster == 3

SumTexts ==
    {"", "roi", "roi 123", "123 yield roi", "yield roi bonds rate irr mean", "What is ROI"}

Clusters ==
    {[i \in 1..Len(texts) |-> [question_text |-> texts[i]]] :
        texts \in UNION {[1..n -> SumTexts] : n \in 0..MaxCluster}}

SumInit ==
    /\ PipelineIdle
    /\ fn \in {[name |-> "generateTopicSummary", questions |-> c, done |-> FALSE,
                out |-> NullObject] : c \in Clusters}

CallSummarize ==
    /\ fn.name = "generateTopicSummary"
    /\ ~fn.done
    /\ fn' = [fn EXCEPT !.done = TRUE, !.out = generateTopicSummary(fn.questions)]
    /\ UNCHANGED <<aiEnabled, hf, db, sub, emitted>>

SumSpec == SumInit /\ [][CallSummarize]_vars

\* C13: generateTopicSummary returns null for an empty cluster; for a non-empty
\* one questionCount is the size of the cluster and urgency is high for a size
\* above 2, medium for the size 2 and low for the size 1.
C13_CountAndUrgency ==
    fn.name = "generateTopicSummary" /\ fn.done =>
        IF Len(fn.questions) = 0 THEN fn.out = NullObject
        ELSE /\ fn.out # NullObject
             /\ fn.out.questionCount = Len(fn.questions)
             /\ fn.out.urgency = CASE Len(fn.questions) > 2 -> "high"
                                   [] Len(fn.questions) = 2 -> "medium"
                                   [] Len(fn.questions) = 1 -> "low"

\* the summary of a cluster of two questions
C13_Witness ==
    /\ fn.name = "generateTopicSummary" /\ fn.done
    /\ Len(fn.questions) = 2
    /\ fn.questions[1].question_text = "What is ROI"
    /\ fn.questions[2].question_text = "roi"
    /\ fn.out # NullObject
    /\ fn.out.questionCount = 2 /\ fn.out.urgency = "medium"

\* the keywords of all members of the cluster, in the order they are collected
ClusterKeywords(questions) == KeywordsFrom(questions, 1)

\* the distinct keywords of all, those with more occurrences first and, among
\* those with as many, the one that occurs first in all first; at most TopKeywords
MostFrequentFirstSeen(all) ==
    LET distinct == Range(all)
        Count(u) == Cardinality({j \in 1..Len(all) : all[j] = u})
        FirstAt(u) == CHOOSE j \in 1..Len(all) :
                          all[j] = u /\ \A k \in 1..(j - 1) : all[k] # u
        Ahead(u, v) == \/ Count(u) > Count(v)
                       \/ (Count(u) = Count(v) /\ FirstAt(u) < FirstAt(v))
        Place(u) == 1 + Cardinality({v \in distinct : Ahead(v, u)})
    IN  [r \in 1..Min(TopKeywords, Cardinality(distinct)) |->
            CHOOSE u \in distinct : Place(u) = r]

\* C14: the keywords of the summary of a non-empty cluster are the three most
\* frequent keywords of its members (all of them when there are fewer), the more
\* frequent first and among equally frequent ones the one seen first, whatever the
\* keywords are, numbers included; the title is these keywords joined by " & ".
C14_TopKeywordsByCountThenFirstSeen ==
    (fn.name = "generateTopicSummary" /\ fn.done /\ Len(fn.questions) > 0) =>
        /\ fn.out.keywords = MostFrequentFirstSeen(ClusterKeywords(fn.questions))
        /\ fn.out.title = join(MostFrequentFirstSeen(ClusterKeywords(fn.questions)), " & ")

-----------------------------------------------------------------------------
(* Properties of the handler: topic label, value ranges, cluster *)

\* the title of the summary when there is one, the category otherwise
LabelOf(topicSummary, category) ==
    IF topicSummary # NullObject THEN topicSummary.title ELSE category

\* C15: the topic label of a submission is the title of its topic summary when
\* there is a summary and its category otherwise, and that label is the one in
\* the row persisted and in the record emitted.
C15_TopicLabelFromSummaryOrCategory ==
    /\ \A s \in Subs :
          /\ sub[s].pc \in {"dbRun", "done"} =>
                sub[s].topicCluster = LabelOf(sub[s].topicSummary, sub[s].category)
          /\ PersistedFor(s) => RowOf(s).topic_cluster = sub[s].topicCluster
    /\ \A i \in 1..Len(emitted) :
          LET d == emitted[i].data IN
          /\ d.topicCluster = LabelOf(d.topicSummary, d.category)
          /\ d.topicCluster = sub[d.id].topicCluster

\* a question persisted and emitted under the title of its summary, which is not
\* its category
C15_Witness ==
    \E s \in Subs :
        /\ sub[s].pc = "done" /\ PersistedFor(s) /\ EmittedFor(s)
        /\ sub[s].questionText = "What is ROI"
        /\ sub[s].category = "definition"
        /\ sub[s].topicSummary # NullObject
        /\ sub[s].topicSummary.title = "ROI"
        /\ RowOf(s).topic_cluster = "ROI"
        /\ \E i \in 1..Len(emitted) :
              emitted[i].data.id = s /\ emitted[i].data.topicCluster = "ROI"

\* one submission, its text calling on each rule of the categorizer or on none,
\* and the remote service giving any of its answers
ClassifyTexts ==
    {"What is ROI", "how to compute irr", "why bonds", "for example bonds",
     "confused", ""}

ClassifyData ==
    [sessionCode : Rooms, questionText : ClassifyTexts, sentiment : ClientSentiments]

NextClassify ==
    \/ \E data \in ClassifyData : SubmitQuestion(1, data)
    \/ \E result \in CategoryResults : CategoryReturns(1, result)
    \/ CategoryNeverReturns(1)
    \/ \E result \in SentimentResults : SentimentReturns(1, result)
    \/ SentimentNeverReturns(1)
    \/ \E err \in BOOLEAN : DbAllCallback(1, err)
    \/ \E err \in BOOLEAN : DbRunCallback(1, err)
    \/ ToggleKillSwitch

ClassifySpec == Init /\ [][NextClassify]_vars

Categories == {"definition", "process", "reasoning", "examples", "clarification", "general"}
Sentiments == {"neutral", "confused", "excited"}

\* C16: whichever way a question is classified (switch off, no credential, an
\* answer of the remote service with one of the candidate labels, a rejection), its
\* category is one of the six categories and its sentiment one of the three
\* sentiments, and so are the category emitted and the sentiment persisted.
C16_CategoryAndSentimentInRange ==
    /\ \A s \in Subs :
          /\ sub[s].category # Null => sub[s].category \in Categories
          /\ sub[s].analyzedSentiment # Null => sub[s].analyzedSentiment \in Sentiments
          /\ Classified(s) =>
                (sub[s].category \in Categories /\ sub[s].analyzedSentiment \in Sentiments)
    /\ \A i \in 1..Len(emitted) : emitted[i].data.category \in Categories
    /\ \A i \in 1..Len(db) : db[i].sentiment \in Sentiments

\* a question classified by the remote service: the label 'clarification and
\* confusion' and the sentiment POSITIVE with the score 0.71
C16_Witness ==
    /\ Classified(1)
    /\ sub[1].questionText = "why bonds"
    /\ sub[1].catCall = "resolved" /\ sub[1].catLabel = "clarification and confusion"
    /\ sub[1].category = "clarification"
    /\ sub[1].sentCall = "resolved" /\ sub[1].sentLabel = "POSITIVE" /\ sub[1].sentScore = 71
    /\ sub[1].analyzedSentiment = "excited"

\* the urgency of a cluster made of this many matches and the new question
UrgencyForMatches(n) ==
    IF n = 0 THEN "low" ELSE IF n = 1 THEN "medium" ELSE "high"

\* the rows that the similarity set of s references, followed by the new question
ClusterOf(s) ==
    SelectSeq(db, LAMBDA q : q.id \in ReferencedBy(s))
    \o <<[question_text |-> sub[s].questionText]>>

\* C17: the topic summary of a submission is the summary of the cluster made of
\* the corpus members its similarity set references and of the new question:
\* questionCount is the size of the similarity set plus 1, and urgency is low
\* without a match, medium with one match and high with two or more; the same
\* holds of the record emitted.
C17_ClusterIsMatchesPlusNew ==
    /\ \A s \in Subs :
          sub[s].pc \in {"dbRun", "done"} =>
              /\ sub[s].topicSummary # NullObject
              /\ sub[s].topicSummary.questionCount = Len(sub[s].similarQuestions) + 1
              /\ sub[s].topicSummary.urgency = UrgencyForMatches(Len(sub[s].similarQuestions))
              /\ Cardinality(ReferencedBy(s)) = Len(sub[s].similarQuestions)
              /\ sub[s].topicSummary = generateTopicSummary(ClusterOf(s))
    /\ \A i \in 1..Len(emitted) :
          LET d == emitted[i].data IN
          /\ d.topicSummary.questionCount = Len(d.similarQuestions) + 1
          /\ d.topicSummary.urgency = UrgencyForMatches(Len(d.similarQuestions))

\* the room holds a question; a first submission matches it and is emitted with
\* urgency medium, a second one matches both and is emitted with urgency high
C17_Witness ==
    /\ Len(db) = 3 /\ db[1].id = 101
    /\ sub[1].pc = "done" /\ sub[2].pc = "done"
    /\ ReferencedBy(1) = {101} /\ ReferencedBy(2) = {101, 1}
    /\ \E i, j \in 1..Len(emitted) :
          /\ emitted[i].data.id = 1
          /\ emitted[i].data.topicSummary.questionCount = 2
          /\ emitted[i].data.topicSummary.urgency = "medium"
          /\ emitted[j].data.id = 2
          /\ emitted[j].data.topicSummary.questionCount = 3
          /\ emitted[j].data.topicSummary.urgency = "high"

\* C18: the handler never summarizes an empty cluster: every submission that has
\* read the corpus has a topic summary, which counts at least the new question,
\* and its topic label is the title of that summary, never the category in its
\* place; the same holds of the row persisted and of the record emitted.
C18_SummaryNeverNull ==
    /\ \A s \in Subs :
          /\ sub[s].pc \in {"dbRun", "done"} =>
                /\ sub[s].topicSummary # NullObject
                /\ sub[s].topicSummary.questionCount >= 1
                /\ sub[s].topicCluster = sub[s].topicSummary.title
          /\ PersistedFor(s) => RowOf(s).topic_cluster = sub[s].topicSummary.title
    /\ \A i \in 1..Len(emitted) :
          /\ emitted[i].data.topicSummary # NullObject
          /\ emitted[i].data.topicCluster = emitted[i].data.topicSummary.title

\* an empty question, which has no keyword and matches nothing: its summary has
\* the empty title, and the empty string, not the category general, is its label
C18_Witness ==
    \E s \in Subs :
        /\ sub[s].pc = "done" /\ PersistedFor(s) /\ EmittedFor(s)
        /\ sub[s].questionText = ""
        /\ sub[s].category = "general"
        /\ sub[s].similarQuestions = <<>>
        /\ sub[s].topicSummary # NullObject
        /\ sub[s].topicSummary.keywords = <<>>
        /\ sub[s].topicSummary.title = ""
        /\ RowOf(s).topic_cluster = ""

=============================================================================
